---- MODULE Spec2Model ----
(***************************************************************************)
(* fsync (src/fsync/fsync.py): comparison of two directory trees by a      *)
(* recursive sorted merge (FSync.check_differences) and their              *)
(* synchronisation (FSync.sync_dirs).                                      *)
(*                                                                         *)
(* A directory tree is a function from relative paths (non-empty sequences *)
(* of names) to nodes; a name is a natural number and the order of names   *)
(* is the order pathlib gives single-component paths.  A file's bytes are  *)
(* abstracted to (size, text, data): its length, whether its head decodes  *)
(* as text, and an identifier telling apart different byte strings of that *)
(* length and kind.  Two files have the same bytes iff the three agree.    *)
(* Entries are regular files and directories; symbolic links and other     *)
(* kinds of entry are left out.  The progress bar (tqdm) is display only   *)
(* and is left out, with the early return of sync_dirs that it guards,     *)
(* which is taken only when the three loops have nothing to do.            *)
(***************************************************************************)
EXTENDS Integers, Sequences, FiniteSets, TLC

VARIABLES fs, fs0, data_left_diff, data_right_diff, hash_diff, policy, ops, pc

vars == <<fs, fs0, data_left_diff, data_right_diff, hash_diff, policy, ops, pc>>

\* Bounds of the model: the names, the entries of the two trees together
\* (under Spec and under DiffSpec), and the byte strings of one size and kind.
MaxName == 2
MaxEntries == 3
MaxDiffEntries == 6
MaxData == 2

\* if left_size > 1000000
LargeFileThreshold == 1000000

Names == 1..MaxName
Sizes == {0, LargeFileThreshold, LargeFileThreshold + 1}

\* DirsData.data_left.path and DirsData.data_right.path: the two roots.
path_left == "L"
path_right == "R"
Roots == {path_left, path_right}

DirNode == [kind |-> "dir"]
\* A zero-byte file has one possible content, and it decodes as text.
FileNodes ==
  {f \in [kind : {"file"}, size : Sizes, text : BOOLEAN, data : 1..MaxData] :
      f.size = 0 => (f.text /\ f.data = 1)}
\* The files the trees of Spec are drawn from: an empty file, and a text file
\* and a binary file of one size above the threshold.
TreeFiles == {f \in FileNodes : f.data = 1 /\ f.size # LargeFileThreshold}
Nodes == TreeFiles \cup {DirNode}
\* The trees of DiffSpec hold directories and text files of two sizes.
DiffNodes == {f \in TreeFiles : f.text} \cup {DirNode}

Parent(p) == SubSeq(p, 1, Len(p) - 1)
IsPrefix(p, q) == Len(p) <= Len(q) /\ SubSeq(q, 1, Len(p)) = p
Name(p) == p[Len(p)]

EmptyTree == [p \in {} |-> DirNode]

\* An order on paths in which a directory precedes what it holds.
RECURSIVE LexLess(_, _)
LexLess(p, q) ==
  IF p = <<>> \/ q = <<>> THEN FALSE
  ELSE Head(p) < Head(q) \/ (Head(p) = Head(q) /\ LexLess(Tail(p), Tail(q)))
PathBefore(p, q) == Len(p) < Len(q) \/ (Len(p) = Len(q) /\ LexLess(p, q))

\* The paths at which an entry can be added to tree t, after those it has.
Addable(t) ==
  {p \in {<<n>> : n \in Names} \cup
         {Append(d, n) : d \in {q \in DOMAIN t : t[q].kind = "dir"}, n \in Names} :
     \A q \in DOMAIN t : PathBefore(q, p)}

\* The trees of n entries with nodes in nodes, each built once, its entries
\* added in path order.
RECURSIVE TreesOfSize(_, _)
TreesOfSize(n, nodes) ==
  IF n = 0 THEN {EmptyTree}
  ELSE UNION {
         {[q \in DOMAIN t \cup {p} |-> IF q = p THEN nd ELSE t[q]] :
             p \in Addable(t), nd \in nodes} :
         t \in TreesOfSize(n - 1, nodes)}

\* The trees of at most max entries, by their number of entries.
TreesBySize(max, nodes) == [n \in 0..max |-> TreesOfSize(n, nodes)]

FileSystem(lt, rt) == [r \in Roots |-> IF r = path_left THEN lt ELSE rt]

\* A pathlib.Path below one of the two roots.
Entry(root, rel) == [root |-> root, rel |-> rel]

exists(f, item) == item.rel \in DOMAIN f[item.root]
is_dir(f, item) == exists(f, item) /\ f[item.root][item.rel].kind = "dir"
is_file(f, item) == exists(f, item) /\ f[item.root][item.rel].kind = "file"
node(f, item) == f[item.root][item.rel]

----------------------------------------------------------------------------
\* The equality oracle.

is_file_text(file) == file.text

\* path.stat().st_size
st_size(file) == file.size

\* path.read_bytes(): the bytes, as the triple that determines them.
read_bytes(file) == <<file.size, file.text, file.data>>

\* hashlib.md5(contents).digest(): taken to be free of collisions on the
\* contents of the model.
md5_digest(contents) == [md5 |-> contents]

\* The oracle with the threshold taken as "at least" (C5 tells them apart).
are_files_equal_at_least(left_file, right_file) ==
  LET left_size == st_size(left_file)
      right_size == st_size(right_file)
  IN IF left_size # right_size THEN FALSE
     ELSE IF ~is_file_text(left_file) /\ left_size >= LargeFileThreshold THEN TRUE
     ELSE md5_digest(read_bytes(left_file)) = md5_digest(read_bytes(right_file))

are_files_equal(left_file, right_file) ==
  LET left_size == st_size(left_file)
      right_size == st_size(right_file)
  IN IF left_size # right_size THEN FALSE
     ELSE IF ~is_file_text(left_file) /\ left_size > LargeFileThreshold THEN TRUE
     ELSE md5_digest(read_bytes(left_file)) = md5_digest(read_bytes(right_file))

----------------------------------------------------------------------------
\* The merge-diff engine.  acc is dirs_data: the three lists being built.

RECURSIVE sorted(_)
sorted(S) ==
  IF S = {} THEN <<>>
  ELSE LET m == CHOOSE x \in S : \A y \in S : x <= y
       IN <<m>> \o sorted(S \ {m})

\* dir_path.iterdir(): the names of the children of dir below root.
iterdir(f, root, dir) ==
  {Name(p) : p \in {q \in DOMAIN f[root] : Len(q) = Len(dir) + 1 /\ Parent(q) = dir}}

SelectNames(f, root, dir, names, kind) ==
  SelectSeq(names, LAMBDA n : f[root][Append(dir, n)].kind = kind)

RECURSIVE compare_subfiles_loop(_, _, _, _, _, _, _, _, _)
compare_subfiles_loop(acc, f, l, r, dir, left_files, right_files, i, j) ==
  IF i <= Len(left_files) /\ j <= Len(right_files) THEN
    LET left_entry == Entry(l, Append(dir, left_files[i]))
        right_entry == Entry(r, Append(dir, right_files[j]))
    IN IF left_files[i] = right_files[j] THEN
         compare_subfiles_loop(
           IF are_files_equal(node(f, left_entry), node(f, right_entry)) THEN acc
           ELSE [acc EXCEPT !.hash_diff = Append(@, <<left_entry, right_entry>>)],
           f, l, r, dir, left_files, right_files, i + 1, j + 1)
       ELSE IF left_files[i] < right_files[j] THEN
         compare_subfiles_loop([acc EXCEPT !.left = Append(@, left_entry)],
           f, l, r, dir, left_files, right_files, i + 1, j)
       ELSE
         compare_subfiles_loop([acc EXCEPT !.right = Append(@, right_entry)],
           f, l, r, dir, left_files, right_files, i, j + 1)
  ELSE IF i <= Len(left_files) THEN
    compare_subfiles_loop(
      [acc EXCEPT !.left = Append(@, Entry(l, Append(dir, left_files[i])))],
      f, l, r, dir, left_files, right_files, i + 1, j)
  ELSE IF j <= Len(right_files) THEN
    compare_subfiles_loop(
      [acc EXCEPT !.right = Append(@, Entry(r, Append(dir, right_files[j])))],
      f, l, r, dir, left_files, right_files, i, j + 1)
  ELSE acc

compare_subfiles(acc, f, l, r, dir, left_dir_contents, right_dir_contents) ==
  compare_subfiles_loop(acc, f, l, r, dir,
    SelectNames(f, l, dir, left_dir_contents, "file"),
    SelectNames(f, r, dir, right_dir_contents, "file"), 1, 1)

\* The merge of the subdirectories that also descends into a subdirectory of
\* the left side alone (C8 tells them apart).
RECURSIVE compare_subdirs_loop_descending(_, _, _, _, _, _, _, _)
compare_subdirs_loop_descending(st, l, r, dir, left_subdirs, right_subdirs, i, j) ==
  IF i <= Len(left_subdirs) /\ j <= Len(right_subdirs) THEN
    IF left_subdirs[i] = right_subdirs[j] THEN
      compare_subdirs_loop_descending(
        [st EXCEPT !.next_subdirs = Append(@, Append(dir, left_subdirs[i]))],
        l, r, dir, left_subdirs, right_subdirs, i + 1, j + 1)
    ELSE IF left_subdirs[i] < right_subdirs[j] THEN
      compare_subdirs_loop_descending(
        [st EXCEPT !.acc.left = Append(@, Entry(l, Append(dir, left_subdirs[i]))),
                   !.next_subdirs = Append(@, Append(dir, left_subdirs[i]))],
        l, r, dir, left_subdirs, right_subdirs, i + 1, j)
    ELSE
      compare_subdirs_loop_descending(
        [st EXCEPT !.acc.right = Append(@, Entry(r, Append(dir, right_subdirs[j])))],
        l, r, dir, left_subdirs, right_subdirs, i, j + 1)
  ELSE IF i <= Len(left_subdirs) THEN
    compare_subdirs_loop_descending(
      [st EXCEPT !.acc.left = Append(@, Entry(l, Append(dir, left_subdirs[i]))),
                 !.next_subdirs = Append(@, Append(dir, left_subdirs[i]))],
      l, r, dir, left_subdirs, right_subdirs, i + 1, j)
  ELSE IF j <= Len(right_subdirs) THEN
    compare_subdirs_loop_descending(
      [st EXCEPT !.acc.right = Append(@, Entry(r, Append(dir, right_subdirs[j])))],
      l, r, dir, left_subdirs, right_subdirs, i, j + 1)
  ELSE st

\* The merge of the subdirectories: st is [acc, next_subdirs].
RECURSIVE compare_subdirs_loop(_, _, _, _, _, _, _, _)
compare_subdirs_loop(st, l, r, dir, left_subdirs, right_subdirs, i, j) ==
  IF i <= Len(left_subdirs) /\ j <= Len(right_subdirs) THEN
    IF left_subdirs[i] = right_subdirs[j] THEN
      compare_subdirs_loop(
        [st EXCEPT !.next_subdirs = Append(@, Append(dir, left_subdirs[i]))],
        l, r, dir, left_subdirs, right_subdirs, i + 1, j + 1)
    ELSE IF left_subdirs[i] < right_subdirs[j] THEN
      compare_subdirs_loop(
        [st EXCEPT !.acc.left = Append(@, Entry(l, Append(dir, left_subdirs[i])))],
        l, r, dir, left_subdirs, right_subdirs, i + 1, j)
    ELSE
      compare_subdirs_loop(
        [st EXCEPT !.acc.right = Append(@, Entry(r, Append(dir, right_subdirs[j])))],
        l, r, dir, left_subdirs, right_subdirs, i, j + 1)
  ELSE IF i <= Len(left_subdirs) THEN
    compare_subdirs_loop(
      [st EXCEPT !.acc.left = Append(@, Entry(l, Append(dir, left_subdirs[i])))],
      l, r, dir, left_subdirs, right_subdirs, i + 1, j)
  ELSE IF j <= Len(right_subdirs) THEN
    compare_subdirs_loop(
      [st EXCEPT !.acc.right = Append(@, Entry(r, Append(dir, right_subdirs[j])))],
      l, r, dir, left_subdirs, right_subdirs, i, j + 1)
  ELSE st

RECURSIVE compare_dir_contents(_, _, _, _, _)
RECURSIVE compare_next_subdirs(_, _, _, _, _, _)

\* for dir_entry in next_subdirs: self._compare_dir_contents(...)
compare_next_subdirs(acc, f, l, r, next_subdirs, k) ==
  IF k > Len(next_subdirs) THEN acc
  ELSE compare_next_subdirs(compare_dir_contents(acc, f, l, r, next_subdirs[k]),
                            f, l, r, next_subdirs, k + 1)

compare_subdirs(acc, f, l, r, dir, left_dir_contents, right_dir_contents) ==
  LET st == compare_subdirs_loop([acc |-> acc, next_subdirs |-> <<>>], l, r, dir,
              SelectNames(f, l, dir, left_dir_contents, "dir"),
              SelectNames(f, r, dir, right_dir_contents, "dir"), 1, 1)
  IN compare_next_subdirs(st.acc, f, l, r, st.next_subdirs, 1)

\* The comparison of a directory that takes the subdirectories before the
\* files (C9 tells them apart).
compare_dir_contents_subdirs_first(acc, f, l, r, dir) ==
  LET left_dir_contents == sorted(iterdir(f, l, dir))
      right_dir_contents == sorted(iterdir(f, r, dir))
  IN compare_subfiles(
       compare_subdirs(acc, f, l, r, dir, left_dir_contents, right_dir_contents),
       f, l, r, dir, left_dir_contents, right_dir_contents)

compare_dir_contents(acc, f, l, r, dir) ==
  LET left_dir_contents == sorted(iterdir(f, l, dir))
      right_dir_contents == sorted(iterdir(f, r, dir))
  IN compare_subdirs(
       compare_subfiles(acc, f, l, r, dir, left_dir_contents, right_dir_contents),
       f, l, r, dir, left_dir_contents, right_dir_contents)

\* DirsData.__init__: the three lists of a new FSync object.
DirsData == [left |-> <<>>, right |-> <<>>, hash_diff |-> <<>>]

\* What check_differences adds to dirs_data for FSync(l, r) on file system f.
check(acc, f, l, r) == compare_dir_contents(acc, f, l, r, <<>>)

----------------------------------------------------------------------------

\* The synchronisation.  st is the file system, the calls made to shutil and
\* pathlib that change it, and whether one of them has raised.

Subtree(t, p) == {q \in DOMAIN t : IsPrefix(p, q)}
Rebase(q, from, to) == to \o SubSeq(q, Len(from) + 1, Len(q))

Call(st, op, src, dst) ==
  Append(st.ops, [op |-> op, src |-> src, dst |-> dst, dst_existed |-> exists(st.fs, dst)])

\* shutil.copytree(src, dst): raises if dst exists.
copytree(st, src, dst) ==
  LET t == st.fs[dst.root]
      new == {Rebase(q, src.rel, dst.rel) : q \in Subtree(st.fs[src.root], src.rel)}
      t2 == [q \in DOMAIN t \cup new |->
               IF q \in new THEN st.fs[src.root][Rebase(q, dst.rel, src.rel)] ELSE t[q]]
  IN IF exists(st.fs, dst)
     THEN [st EXCEPT !.ops = Call(st, "copytree", src, dst), !.err = TRUE]
     ELSE [st EXCEPT !.ops = Call(st, "copytree", src, dst), !.fs[dst.root] = t2]

\* shutil.copyfile(src, dst): raises if dst is a directory or has no parent.
copyfile(st, src, dst) ==
  LET t == st.fs[dst.root]
      t2 == [q \in DOMAIN t \cup {dst.rel} |->
               IF q = dst.rel THEN node(st.fs, src) ELSE t[q]]
  IN IF is_dir(st.fs, dst) \/ (Len(dst.rel) > 1 /\ Parent(dst.rel) \notin DOMAIN t)
     THEN [st EXCEPT !.ops = Call(st, "copyfile", src, dst), !.err = TRUE]
     ELSE [st EXCEPT !.ops = Call(st, "copyfile", src, dst), !.fs[dst.root] = t2]

\* shutil.rmtree(item): raises if item is not a directory.
rmtree(st, item) ==
  LET t == st.fs[item.root]
      t2 == [q \in DOMAIN t \ Subtree(t, item.rel) |-> t[q]]
  IN IF ~is_dir(st.fs, item)
     THEN [st EXCEPT !.ops = Call(st, "rmtree", item, item), !.err = TRUE]
     ELSE [st EXCEPT !.ops = Call(st, "rmtree", item, item), !.fs[item.root] = t2]

\* item.unlink()
unlink(st, item) ==
  LET t == st.fs[item.root]
      t2 == [q \in DOMAIN t \ {item.rel} |-> t[q]]
  IN [st EXCEPT !.ops = Call(st, "unlink", item, item), !.fs[item.root] = t2]

\* _sync_items without the test that item2 does not exist (C7 tells them
\* apart).
sync_items_unguarded(st, item1, item2, overwrite) ==
  IF exists(st.fs, item1) THEN
    IF ~overwrite THEN
      IF is_dir(st.fs, item1) THEN copytree(st, item1, item2)
      ELSE copyfile(st, item1, item2)
    ELSE
      IF is_dir(st.fs, item1) THEN
        LET st1 == IF exists(st.fs, item2) THEN rmtree(st, item2) ELSE st
        IN IF st1.err THEN st1 ELSE copytree(st1, item1, item2)
      ELSE copyfile(st, item1, item2)
  ELSE st

sync_items(st, item1, item2, overwrite) ==
  IF exists(st.fs, item1) THEN
    IF ~overwrite /\ ~exists(st.fs, item2) THEN
      IF is_dir(st.fs, item1) THEN copytree(st, item1, item2)
      ELSE copyfile(st, item1, item2)
    ELSE IF overwrite THEN
      IF is_dir(st.fs, item1) THEN
        LET st1 == IF exists(st.fs, item2) THEN rmtree(st, item2) ELSE st
        IN IF st1.err THEN st1 ELSE copytree(st1, item1, item2)
      ELSE copyfile(st, item1, item2)
    ELSE st
  ELSE st

remove_item(st, item) ==
  IF exists(st.fs, item) THEN
    IF is_dir(st.fs, item) THEN rmtree(st, item) ELSE unlink(st, item)
  ELSE st

\* if add_missing: for item_src in items_extra: ...
RECURSIVE add_missing_loop(_, _, _, _, _, _)
add_missing_loop(st, items_extra, k, src_base_path, dst_base_path, overwrite) ==
  IF k > Len(items_extra) \/ st.err THEN st
  ELSE LET item_src == items_extra[k]
           item_dst == Entry(dst_base_path, item_src.rel)
       IN add_missing_loop(sync_items(st, item_src, item_dst, overwrite),
                           items_extra, k + 1, src_base_path, dst_base_path, overwrite)

\* if remove_extra: for item in items_extra: ...
RECURSIVE remove_extra_loop(_, _, _)
remove_extra_loop(st, items_extra, k) ==
  IF k > Len(items_extra) \/ st.err THEN st
  ELSE remove_extra_loop(remove_item(st, items_extra[k]), items_extra, k + 1)

\* if overwrite: for item in items_common: ...
RECURSIVE overwrite_loop(_, _, _, _)
overwrite_loop(st, items_common, k, reverse_direction) ==
  IF k > Len(items_common) \/ st.err THEN st
  ELSE LET item == items_common[k]
           item_src == IF ~reverse_direction THEN item[1] ELSE item[2]
           item_dst == IF ~reverse_direction THEN item[2] ELSE item[1]
       IN overwrite_loop(sync_items(st, item_src, item_dst, TRUE),
                         items_common, k + 1, reverse_direction)

\* sync_dirs that removes the entries of the source's list (C10 tells them
\* apart).
sync_removing_source(f, d, overwrite, add_missing, remove_extra, reverse_direction) ==
  LET st0 == [fs |-> f, ops |-> <<>>, err |-> FALSE]
      st1 == IF add_missing
             THEN add_missing_loop(st0,
                    IF ~reverse_direction THEN d.left ELSE d.right, 1,
                    IF ~reverse_direction THEN path_left ELSE path_right,
                    IF ~reverse_direction THEN path_right ELSE path_left,
                    overwrite)
             ELSE st0
      st2 == IF remove_extra /\ ~st1.err
             THEN remove_extra_loop(st1,
                    IF ~reverse_direction THEN d.left ELSE d.right, 1)
             ELSE st1
  IN IF overwrite /\ ~st2.err
     THEN overwrite_loop(st2, d.hash_diff, 1, reverse_direction)
     ELSE st2

\* The body of sync_dirs on dirs_data d, from file system f.
sync(f, d, overwrite, add_missing, remove_extra, reverse_direction) ==
  LET st0 == [fs |-> f, ops |-> <<>>, err |-> FALSE]
      st1 == IF add_missing
             THEN add_missing_loop(st0,
                    IF ~reverse_direction THEN d.left ELSE d.right, 1,
                    IF ~reverse_direction THEN path_left ELSE path_right,
                    IF ~reverse_direction THEN path_right ELSE path_left,
                    overwrite)
             ELSE st0
      st2 == IF remove_extra /\ ~st1.err
             THEN remove_extra_loop(st1,
                    IF ~reverse_direction THEN d.right ELSE d.left, 1)
             ELSE st1
  IN IF overwrite /\ ~st2.err
     THEN overwrite_loop(st2, d.hash_diff, 1, reverse_direction)
     ELSE st2

----------------------------------------------------------------------------

NoPolicy == [overwrite |-> FALSE, add_missing |-> FALSE, remove_extra |-> FALSE,
             reverse_direction |-> FALSE]

\* A new FSync(path_left, path_right) object on file system f.
FSyncInit(f) ==
  /\ fs = f
  /\ fs0 = f
  /\ data_left_diff = DirsData.left
  /\ data_right_diff = DirsData.right
  /\ hash_diff = DirsData.hash_diff
  /\ policy = NoPolicy
  /\ ops = <<>>
  /\ pc = "new"

\* Two trees of at most MaxEntries entries in all.
Init ==
  LET trees == TreesBySize(MaxEntries, Nodes)
  IN \E n \in 0..MaxEntries : \E m \in 0..(MaxEntries - n) :
       \E lt \in trees[n], rt \in trees[m] : FSyncInit(FileSystem(lt, rt))

\* Two trees of at most MaxDiffEntries entries in all.
DiffInit ==
  LET trees == TreesBySize(MaxDiffEntries, DiffNodes)
  IN \E n \in 0..MaxDiffEntries : \E m \in 0..(MaxDiffEntries - n) :
       \E lt \in trees[n], rt \in trees[m] : FSyncInit(FileSystem(lt, rt))

\* One file of the same name on each side, of any size, kind and content.
OracleInit ==
  \E a \in FileNodes, b \in FileNodes :
    FSyncInit(FileSystem([p \in {<<1>>} |-> a], [p \in {<<1>>} |-> b]))

check_differences ==
  /\ pc = "new"
  /\ LET acc == check([left |-> data_left_diff, right |-> data_right_diff,
                       hash_diff |-> hash_diff], fs, path_left, path_right)
     IN /\ data_left_diff' = acc.left
        /\ data_right_diff' = acc.right
        /\ hash_diff' = acc.hash_diff
  /\ pc' = "checked"
  /\ UNCHANGED <<fs, fs0, policy, ops>>

sync_dirs(overwrite, add_missing, remove_extra, reverse_direction) ==
  /\ pc = "checked"
  /\ LET st == sync(fs, [left |-> data_left_diff, right |-> data_right_diff,
                         hash_diff |-> hash_diff],
                    overwrite, add_missing, remove_extra, reverse_direction)
     IN /\ fs' = st.fs
        /\ ops' = st.ops
        /\ pc' = IF st.err THEN "aborted" ELSE "synced"
  /\ policy' = [overwrite |-> overwrite, add_missing |-> add_missing,
                remove_extra |-> remove_extra, reverse_direction |-> reverse_direction]
  /\ UNCHANGED <<fs0, data_left_diff, data_right_diff, hash_diff>>

Next ==
  \/ check_differences
  \/ \E overwrite, add_missing, remove_extra, reverse_direction \in BOOLEAN :
       sync_dirs(overwrite, add_missing, remove_extra, reverse_direction)

Spec == Init /\ [][Next]_vars

\* The comparison alone, on larger trees.
DiffNext == check_differences
DiffSpec == DiffInit /\ [][DiffNext]_vars

\* The comparison and synchronisation of two single files.
OracleSpec == OracleInit /\ [][Next]_vars

----------------------------------------------------------------------------
\* Vocabulary of the properties.  fs0 is the file system check_differences
\* saw, and the one sync_dirs started from.

Range(seq) == {seq[i] : i \in DOMAIN seq}
RelPaths(seq) == {e.rel : e \in Range(seq)}
HashLeft == {pair[1] : pair \in Range(hash_diff)}
HashRight == {pair[2] : pair \in Range(hash_diff)}
HashRel == {e.rel : e \in HashLeft \cup HashRight}
OnlyList(root) == IF root = path_left THEN data_left_diff ELSE data_right_diff
HashSide(root) == IF root = path_left THEN HashLeft ELSE HashRight
StrictPrefix(p, q) == p # q /\ IsPrefix(p, q)
Count(seq, e) == Cardinality({i \in DOMAIN seq : seq[i] = e})

MirrorPolicy == policy.overwrite /\ policy.add_missing /\ policy.remove_extra
SrcRoot == IF ~policy.reverse_direction THEN path_left ELSE path_right
DstRoot == IF ~policy.reverse_direction THEN path_right ELSE path_left
Other(root) == IF root = path_left THEN path_right ELSE path_left
SyncOver == pc \in {"synced", "aborted"}

\* The result of a fresh FSync(l, r).check_differences() on the trees as they are.
FreshCheck(l, r) == check(DirsData, fs, l, r)

----------------------------------------------------------------------------
\* C1: after check_differences every entry under either root falls in exactly
\* one of left-only, right-only, content-differs and identical, and the three
\* recorded lists are pairwise disjoint by path relative to the entry's root.
C1_Classification ==
  pc = "checked" =>
    /\ \A root \in Roots : \A p \in DOMAIN fs0[root] :
         ~ (/\ \E e \in Range(OnlyList(root)) : IsPrefix(e.rel, p)
            /\ Entry(root, p) \in HashSide(root))
    /\ \A root \in Roots : \A e \in Range(OnlyList(root)) : Count(OnlyList(root), e) = 1
    /\ RelPaths(data_left_diff) \cap RelPaths(data_right_diff) = {}
    /\ RelPaths(data_left_diff) \cap HashRel = {}
    /\ RelPaths(data_right_diff) \cap HashRel = {}

\* C2: the comparison of (R, L) is the mirror image of the comparison of
\* (L, R): the -only lists change sides and every content-differs pair is
\* swapped.
C2_MirrorImage ==
  pc = "checked" =>
    LET m == FreshCheck(path_right, path_left)
    IN /\ data_left_diff = m.right
       /\ data_right_diff = m.left
       /\ m.hash_diff = [i \in DOMAIN hash_diff |-> <<hash_diff[i][2], hash_diff[i][1]>>]

\* C3: after check_differences and sync_dirs with overwrite, add_missing and
\* remove_extra, in either direction, a fresh check_differences finds no
\* left-only, no right-only and no content-differs entry.
C3_Idempotent ==
  (SyncOver /\ MirrorPolicy) =>
    LET d == FreshCheck(path_left, path_right)
    IN d.left = <<>> /\ d.right = <<>> /\ d.hash_diff = <<>>

\* C4: once a mirror sync (add_missing, remove_extra and overwrite) has
\* completed, the destination tree has the paths of the source tree, each of
\* the same kind and, for a file, the same bytes.
C4_ExactCopy ==
  (pc = "synced" /\ MirrorPolicy) => fs[DstRoot] = fs[SrcRoot]

\* C5: the oracle answers false for two sizes that differ; for equal sizes it
\* answers true when the left file is binary and larger than 1,000,000 bytes,
\* and otherwise true exactly when the bytes are the same; so two empty files
\* are equal, and so are two text files of the same bytes, whatever their size.
\* The oracle's answer on the one pair of files is read off hash_diff.
C5_Oracle ==
  pc = "checked" =>
    LET a == fs0[path_left][<<1>>]
        b == fs0[path_right][<<1>>]
        equal == hash_diff = <<>>
        shortcut == ~a.text /\ a.size > 1000000
    IN /\ a.size # b.size => ~equal
       /\ (a.size = b.size /\ shortcut) => equal
       /\ (a.size = b.size /\ ~shortcut) => (equal <=> a = b)
       /\ (a.size = 0 /\ b.size = 0) => equal
       /\ (a.text /\ b.text /\ a = b) => equal

\* C5's case: a binary file above the threshold is found equal to a file of
\* the same size and other bytes.
C5_Witness ==
  /\ pc = "checked"
  /\ fs0[path_left][<<1>>].size > 1000000
  /\ ~fs0[path_left][<<1>>].text
  /\ fs0[path_left][<<1>>].size = fs0[path_right][<<1>>].size
  /\ fs0[path_left][<<1>>] # fs0[path_right][<<1>>]
  /\ hash_diff = <<>>

\* C6: with its direction argument true, the default, sync_dirs copies from
\* left to right: with add_missing every entry found in the left tree alone
\* is in the right tree afterwards.
C6_DirectionAsDocumented ==
  (pc = "synced" /\ policy.reverse_direction /\ policy.add_missing) =>
    \A e \in Range(data_left_diff) : exists(fs, Entry(path_right, e.rel))

AddOnly == policy.add_missing /\ ~policy.overwrite /\ ~policy.remove_extra

\* C7: with add_missing alone, an entry is copied only to a destination path
\* that does not exist at that moment, every path the destination tree had
\* keeps its kind and content, and nothing is deleted on either side.
C7_AddMissingOnly ==
  (SyncOver /\ AddOnly) =>
    /\ \A i \in DOMAIN ops :
         /\ ops[i].op \in {"copytree", "copyfile"}
         /\ ops[i].src \in Range(OnlyList(SrcRoot))
         /\ ops[i].dst = Entry(DstRoot, ops[i].src.rel)
         /\ ~ops[i].dst_existed
    /\ \A p \in DOMAIN fs0[DstRoot] :
         p \in DOMAIN fs[DstRoot] /\ fs[DstRoot][p] = fs0[DstRoot][p]
    /\ \A e \in Range(OnlyList(SrcRoot)) :
         exists(fs0, Entry(DstRoot, e.rel)) => \A i \in DOMAIN ops : ops[i].src # e
    /\ fs[SrcRoot] = fs0[SrcRoot]

\* C7's case: one entry of the source's list was copied and another was not,
\* its destination path being there already.
C7_Witness ==
  /\ pc = "synced" /\ AddOnly
  /\ ops # <<>>
  /\ fs # fs0
  /\ \E e \in Range(OnlyList(SrcRoot)) : exists(fs0, Entry(DstRoot, e.rel))

\* Directory p, and every directory above it, is a directory on both sides.
Matched(p) ==
  \A k \in 1..Len(p) : \A root \in Roots :
    /\ SubSeq(p, 1, k) \in DOMAIN fs0[root]
    /\ fs0[root][SubSeq(p, 1, k)].kind = "dir"

\* C8: a subdirectory with no subdirectory of its name on the other side is
\* put once in its side's -only list, and nothing below an entry of an -only
\* list is in that list or in hash_diff.
C8_SubdirWhole ==
  pc = "checked" =>
    /\ \A root \in Roots : \A e \in Range(OnlyList(root)) :
         \A e2 \in Range(OnlyList(root)) \cup HashSide(root) :
           ~StrictPrefix(e.rel, e2.rel)
    /\ \A root \in Roots : \A p \in DOMAIN fs0[root] :
         (/\ fs0[root][p].kind = "dir"
          /\ Matched(Parent(p))
          /\ ~is_dir(fs0, Entry(Other(root), p)))
         => Count(OnlyList(root), Entry(root, p)) = 1

\* C8's case: a subdirectory that holds an entry is on one side alone, and
\* it is the whole of that side's list.
C8_Witness ==
  /\ pc = "checked"
  /\ \E root \in Roots : \E p \in DOMAIN fs0[root] :
       /\ fs0[root][p].kind = "dir"
       /\ Subtree(fs0[root], p) # {p}
       /\ ~exists(fs0, Entry(Other(root), p))
       /\ OnlyList(root) = <<Entry(root, p)>>

\* The order in which check_differences comes to the directories: a
\* directory before the directories below it, and the subdirectories of one
\* directory by name, each with all below it before the next.
VisitedBefore(d1, d2) ==
  StrictPrefix(d1, d2) \/ (~IsPrefix(d2, d1) /\ LexLess(d1, d2))

\* C9 as stated: in each -only list the entries of one directory are in the
\* order of their names, the entries of a directory are before those of its
\* matched subdirectories, and the matched subdirectories follow depth first
\* in the order of their names.
C9_SortedByName ==
  pc = "checked" =>
    \A root \in Roots : \A i, j \in DOMAIN OnlyList(root) :
      i < j =>
        LET p == OnlyList(root)[i].rel
            q == OnlyList(root)[j].rel
        IN IF Parent(p) = Parent(q) THEN Name(p) < Name(q)
           ELSE VisitedBefore(Parent(p), Parent(q))

\* C9 amended: in each -only list the entries of one directory are its files
\* in the order of their names and then its subdirectories in the order of
\* their names; the entries of a directory are before those of its matched
\* subdirectories, which follow depth first in the order of their names.
C9_FilesThenSubdirs ==
  pc = "checked" =>
    \A root \in Roots : \A i, j \in DOMAIN OnlyList(root) :
      i < j =>
        LET p == OnlyList(root)[i].rel
            q == OnlyList(root)[j].rel
            kp == fs0[root][p].kind
            kq == fs0[root][q].kind
        IN IF Parent(p) = Parent(q)
           THEN \/ kp = "file" /\ kq = "dir"
                \/ kp = kq /\ Name(p) < Name(q)
           ELSE VisitedBefore(Parent(p), Parent(q))

\* C9's case: a list holds an entry of the root, then, from a matched
\* subdirectory, a file and after it a subdirectory of a smaller name.
C9_Witness ==
  /\ pc = "checked"
  /\ \E root \in Roots : \E i, j, k \in DOMAIN OnlyList(root) :
       LET o == OnlyList(root)[i].rel
           p == OnlyList(root)[j].rel
           q == OnlyList(root)[k].rel
       IN /\ i < j /\ j < k
          /\ Len(o) = 1 /\ Len(p) = 2 /\ Parent(p) = Parent(q)
          /\ fs0[root][p].kind = "file" /\ fs0[root][q].kind = "dir"
          /\ Name(q) < Name(p)

\* C10: whatever the policy and the direction, and also when it stops on an
\* error, sync_dirs leaves the source tree as it was: every copy writes
\* below the destination root and every deletion is of an entry of the
\* destination's -only list.
C10_SourceUntouched ==
  SyncOver =>
    /\ fs[SrcRoot] = fs0[SrcRoot]
    /\ \A i \in DOMAIN ops :
         /\ ops[i].dst.root = DstRoot
         /\ ops[i].op \in {"copytree", "copyfile"} => ops[i].src.root = SrcRoot
         /\ ops[i].op \in {"rmtree", "unlink"} => ops[i].dst \in Range(OnlyList(DstRoot))

\* C10's case: a mirror sync has copied an entry and deleted another.
C10_Witness ==
  /\ pc = "synced" /\ MirrorPolicy
  /\ \E i, j \in DOMAIN ops :
       /\ ops[i].op \in {"copytree", "copyfile"}
       /\ ops[j].op \in {"rmtree", "unlink"}
  /\ fs[DstRoot] # fs0[DstRoot]

====
